---------------------------- MODULE Spec2Model ----------------------------
(***************************************************************************)
(* Model of scripts/error_code_generator_defs/error_code_defs_generator.py *)
(* : the generator that turns the three-level result_codes.json document   *)
(* (facilities -> components -> results) into the definitions of result.h. *)
(*                                                                         *)
(* Python integers are unbounded, and a packed code reaches 2^32 - 1, so    *)
(* the values MakeERC computes are kept as "wide" numbers: sequences of    *)
(* bits, least significant bit first, without leading zero bits.  The raw  *)
(* codes read from the document are ordinary integers.                     *)
(***************************************************************************)
EXTENDS Integers, Sequences, FiniteSets, TLC

VARIABLES
    pc,             \* position of the run in __main__ / parse_json / generate_result_h_file
    facilities,     \* ErrorCodeDefinitionGenerator.facilities
    doc,            \* the json objects the loops of parse_json have taken from the document, in order
    parse_json_ret, \* what the call of parse_json returned ("True", "False"), or the exception it raised
    stdout,         \* the diagnostics printed so far
    result_h,       \* the file at result_h_path
    result_h_before,\* the file at result_h_path when the run started
    opens,          \* number of open(result_h_path, 'w') calls made
    reads,          \* number of open(json_path) calls made
    writes,         \* number of result_h_file.write calls made
    exitCode,       \* <<status>> once the process has exited, <<>> before
    argv,           \* the command line of the run
    json_file,      \* what lies at the path given with -j
    result_dir,     \* what lies at the directory part of the path given with -r
    first,          \* <<outcome>> of an earlier run on the same files, <<>> if there was none
    ercArgs,        \* arguments of the last direct MakeERC call
    ercVal          \* value of the last direct MakeERC call

vars == <<pc, facilities, doc, parse_json_ret, stdout, result_h,
          result_h_before, opens, reads, writes, exitCode, argv, json_file,
          result_dir, first, ercArgs, ercVal>>

mainVars == <<pc, facilities, doc, parse_json_ret, stdout, result_h,
              result_h_before, opens, exitCode>>

\* the command line and the files the run finds, and the earlier run
envVars == <<argv, json_file, result_dir, first>>

\* the calls counted
countVars == <<reads, writes>>

ercVars == <<ercArgs, ercVal>>

----------------------------------------------------------------------------
(* Bounds of the model *)

\* json objects (facility, component and result records) read in one run
MaxRecords == 4

\* json objects in a document the generator is run on twice
MaxRerunRecords == 3

\* objects read from a document of well-typed objects only
MaxLongRecords == 5

\* how far around each field boundary the direct MakeERC calls are sampled
ErcSpread == 2

----------------------------------------------------------------------------
(* Python integer operators used by MakeERC *)

RECURSIVE Pow2(_)
Pow2(n) == IF n = 0 THEN 1 ELSE 2 * Pow2(n - 1)

\* a & b on Python integers, one of them a non-negative mask: bit i of the
\* result is set iff it is set in both (a negative operand is read in two's
\* complement, which is what floor division by 2 yields)
RECURSIVE PyAnd(_, _)
PyAnd(a, b) ==
    IF a = 0 \/ b = 0 THEN 0
    ELSE (a % 2) * (b % 2) + 2 * PyAnd(a \div 2, b \div 2)

\* the bits of a non-negative integer, least significant first
RECURSIVE ToWide(_)
ToWide(n) == IF n = 0 THEN <<>> ELSE <<n % 2>> \o ToWide(n \div 2)

RECURSIVE Zeros(_)
Zeros(n) == IF n = 0 THEN <<>> ELSE <<0>> \o Zeros(n - 1)

\* w << n on a non-negative Python integer
PyShl(w, n) == IF w = <<>> THEN <<>> ELSE Zeros(n) \o w

\* a | b on non-negative Python integers
RECURSIVE PyOr(_, _)
PyOr(a, b) ==
    IF a = <<>> THEN b
    ELSE IF b = <<>> THEN a
    ELSE <<IF Head(a) = 1 \/ Head(b) = 1 THEN 1 ELSE 0>> \o PyOr(Tail(a), Tail(b))

\* MakeERC with a value mask one bit too wide (0x1FFFFF)
MakeERC_WideValueMask(facility, component, result) ==
    PyOr(PyOr(PyShl(ToWide(PyAnd(facility, 15)), 28),
              PyShl(ToWide(PyAnd(component, 255)), 20)),
         ToWide(PyAnd(2097151, result)))

\* MakeERC with the facility shifted by 0x18 instead of 0x1C
MakeERC_ShortShift(facility, component, result) ==
    PyOr(PyOr(PyShl(ToWide(PyAnd(facility, 15)), 24),
              PyShl(ToWide(PyAnd(component, 255)), 20)),
         ToWide(PyAnd(1048575, result)))

\* ((facility & 0xF) << 0x1C) | ((component & 0xFF) << 0x14) | (0xFFFFF & result)
MakeERC(facility, component, result) ==
    PyOr(PyOr(PyShl(ToWide(PyAnd(facility, 15)), 28),
              PyShl(ToWide(PyAnd(component, 255)), 20)),
         ToWide(PyAnd(1048575, result)))

----------------------------------------------------------------------------
(* Reading a wide number *)

Bit(w, i) == IF i + 1 <= Len(w) THEN w[i + 1] ELSE 0

\* the integer held in bits lo..hi of w
RECURSIVE BitField(_, _, _)
BitField(w, lo, hi) ==
    IF hi < lo THEN 0 ELSE Bit(w, lo) + 2 * BitField(w, lo + 1, hi)

\* hex(w) without its "0x" prefix: the hexadecimal digits, most significant first
RECURSIVE HexDigits(_)
HexDigits(w) ==
    IF Len(w) <= 4 THEN <<BitField(w, 0, 3)>>
    ELSE HexDigits(SubSeq(w, 5, Len(w))) \o <<BitField(w, 0, 3)>>


----------------------------------------------------------------------------
(* The json document *)

\* a json value: an int, a str, or Missing when the object has no such key
JInt(n) == [t |-> "int", i |-> n, s |-> ""]
JStr(x) == [t |-> "str", i |-> 0, s |-> x]
Missing == [t |-> "missing", i |-> 0, s |-> ""]
JList == [t |-> "list", i |-> 0, s |-> ""]

\* a json object of the document, read through its keys; the key `list` is
\* "components" in a facility object and "results" in a component object
JObject(code, name, doc_string, value) ==
    [code |-> code, name |-> name, doc_string |-> doc_string, value |-> value,
     list |-> JList]

NoObject == [JObject(Missing, Missing, Missing, Missing) EXCEPT !.list = Missing]

FacilityCodeValues == {1, 16}
FacilityNames == {"FAC_A", "FAC_B"}
ComponentCodeValues == {2, 258}
ComponentNames == {"COMP_X", "COMP_Y"}
ResultValues == {5, 6, 1048581}     \* 5, 6 and 5 + 2^20
ResultNames == {"RES_OK", "RES_ERR"}

\* the well-typed objects, and for each key an object whose value has the
\* wrong type and one that lacks the key
Malformed(good, keys) ==
    UNION { { [good EXCEPT ![k] = Missing],
              [good EXCEPT ![k] = IF good[k].t = "str" THEN JInt(0) ELSE JStr("1")] } :
            k \in keys }

FacilityObjects ==
    { JObject(JInt(c), JStr(n), JStr("doc"), Missing) :
        c \in FacilityCodeValues, n \in FacilityNames }
    \cup Malformed(JObject(JInt(1), JStr("FAC_A"), JStr("doc"), Missing),
                   {"code", "name", "doc_string", "list"})

ComponentObjects ==
    { JObject(JInt(c), JStr(n), JStr("doc"), Missing) :
        c \in ComponentCodeValues, n \in ComponentNames }
    \cup Malformed(JObject(JInt(2), JStr("COMP_X"), JStr("doc"), Missing),
                   {"code", "name", "doc_string", "list"})

ResultObjects ==
    { JObject(Missing, JStr(n), Missing, JInt(v)) :
        v \in ResultValues, n \in ResultNames }
    \cup Malformed(JObject(Missing, JStr("RES_OK"), Missing, JInt(5)),
                   {"value", "name"})

----------------------------------------------------------------------------
(* The classes FacilityCode, ComponentCode and ResultCode *)

\* FacilityCode.__init__
FacilityCode(_name, _value, _doc_string) ==
    [name |-> _name, value |-> _value, doc_string |-> _doc_string,
     components |-> <<>>]

\* FacilityCode.__eq__ comparing the names only
FacilityEq_NameOnly(self, o) == self.name = o.name

\* FacilityCode.__eq__
FacilityEq(self, o) == self.value = o.value \/ self.name = o.name

\* ComponentCode.__init__
ComponentCode(_name, _value, _doc_string, _facility_code) ==
    [name |-> _name, value |-> _value, doc_string |-> _doc_string,
     facility_code |-> _facility_code, results |-> <<>>]

\* ComponentCode.__eq__ comparing the names only
ComponentEq_NameOnly(self, o) == self.name = o.name

\* ComponentCode.__eq__
ComponentEq(self, o) ==
    (self.value = o.value /\ self.facility_code = o.facility_code)
    \/ self.name = o.name

\* ResultCode.__init__ passing the component code to MakeERC as the
\* facility and the facility code as the component
ResultCode_CodesSwapped(_name, _rc_value, _fc_value, _cc_value) ==
    [name |-> _name, rc_value |-> _rc_value,
     full_erc_value |-> MakeERC(_cc_value, _fc_value, _rc_value)]

\* ResultCode.__init__
ResultCode(_name, _rc_value, _fc_value, _cc_value) ==
    [name |-> _name, rc_value |-> _rc_value,
     full_erc_value |-> MakeERC(_fc_value, _cc_value, _rc_value)]

\* ResultCode.__eq__ comparing the names only
ResultEq_NameOnly(self, o) == self.name = o.name

\* ResultCode.__eq__ comparing the packed codes only
ResultEq_CodeOnly(self, o) == self.full_erc_value = o.full_erc_value

\* ResultCode.__eq__
ResultEq(self, o) ==
    self.full_erc_value = o.full_erc_value \/ self.name = o.name

\* the outcome of an add_* method: the value returned and the list afterwards
Added(list, x) == [ok |-> TRUE, list |-> Append(list, x)]
Rejected(list) == [ok |-> FALSE, list |-> list]

\* add_facility_code putting a colliding facility, which has no components
\* yet, in the place of the one it collides with
add_facility_code_Replace(list, facility) ==
    IF ~ \E i \in DOMAIN list : FacilityEq(list[i], facility)
    THEN Added(list, facility)
    ELSE [ok |-> FALSE,
          list |-> [i \in DOMAIN list |->
                       IF FacilityEq(list[i], facility) THEN facility ELSE list[i]]]

\* add_facility_code inserting at the head of the list
add_facility_code_Prepend(list, facility) ==
    IF ~ \E i \in DOMAIN list : FacilityEq(list[i], facility)
    THEN [ok |-> TRUE, list |-> <<facility>> \o list]
    ELSE Rejected(list)

\* ErrorCodeDefinitionGenerator.add_facility_code
add_facility_code(list, facility) ==
    IF ~ \E i \in DOMAIN list : FacilityEq(list[i], facility)
    THEN Added(list, facility)
    ELSE Rejected(list)

\* FacilityCode.add_component
add_component(list, component) ==
    IF ~ \E i \in DOMAIN list : ComponentEq(list[i], component)
    THEN Added(list, component)
    ELSE Rejected(list)

\* add_result putting a colliding result in the place of the one it
\* collides with
add_result_Overwrite(list, result) ==
    IF ~ \E i \in DOMAIN list : ResultEq(list[i], result)
    THEN Added(list, result)
    ELSE [ok |-> FALSE,
          list |-> [i \in DOMAIN list |->
                       IF ResultEq(list[i], result) THEN result ELSE list[i]]]

\* ComponentCode.add_result
add_result(list, result) ==
    IF ~ \E i \in DOMAIN list : ResultEq(list[i], result)
    THEN Added(list, result)
    ELSE Rejected(list)

----------------------------------------------------------------------------
(* Generated text.  A text is a sequence of blocks (the strings the source *)
(* concatenates), a block a sequence of string tokens.                     *)

tabsize == 2

DigitChar(d) ==
    CASE d = 0 -> "0" [] d = 1 -> "1" [] d = 2 -> "2" [] d = 3 -> "3"
      [] d = 4 -> "4" [] d = 5 -> "5" [] d = 6 -> "6" [] d = 7 -> "7"
      [] d = 8 -> "8" [] d = 9 -> "9" [] d = 10 -> "a" [] d = 11 -> "b"
      [] d = 12 -> "c" [] d = 13 -> "d" [] d = 14 -> "e" [] d = 15 -> "f"

Chars(digits) == [k \in DOMAIN digits |-> DigitChar(digits[k])]

RECURSIVE DecDigits(_)
DecDigits(n) == IF n < 10 THEN <<n>> ELSE DecDigits(n \div 10) \o <<n % 10>>

\* str(n) of an int
PyStr(n) == IF n < 0 THEN <<"-">> \o Chars(DecDigits(0 - n)) ELSE Chars(DecDigits(n))

\* decimal digits, least significant first, of twice a number plus a carry
RECURSIVE DoubleLE(_, _)
DoubleLE(d, carry) ==
    IF d = <<>> THEN (IF carry = 0 THEN <<>> ELSE <<carry>>)
    ELSE <<(2 * Head(d) + carry) % 10>>
         \o DoubleLE(Tail(d), (2 * Head(d) + carry) \div 10)

RECURSIVE WideDecLE(_)
WideDecLE(w) == IF w = <<>> THEN <<>> ELSE DoubleLE(WideDecLE(Tail(w)), Head(w))

Reverse(q) == [k \in DOMAIN q |-> q[Len(q) + 1 - k]]

\* str(w) of a wide number
WideStr(w) == IF w = <<>> THEN <<"0">> ELSE Chars(Reverse(WideDecLE(w)))

\* hex(w) of a wide number
PyHex(w) == <<"0x">> \o Chars(HexDigits(w))

Spaces(n) == [k \in 1..n |-> " "]

\* q[1] \o q[2] \o ... for a sequence of sequences
RECURSIVE Flatten(_)
Flatten(q) == IF q = <<>> THEN <<>> ELSE Head(q) \o Flatten(Tail(q))

\* CreateBriefDoxyString
CreateBriefDoxyString(brief) == <<"/**\n * @brief ">> \o brief \o <<"\n */\n ">>

\* CreateEnumDoxyString
CreateEnumDoxyString(brief) == <<"//!< ">> \o brief

\* FacilityCode.get_enum_doxy_comment, ComponentCode.get_enum_doxy_comment
get_enum_doxy_comment(self) ==
    CreateEnumDoxyString(<<self.name, " : ">> \o PyStr(self.value)
                         \o <<", ", self.doc_string>>)

\* FacilityCode.get_enum_define_with_comment, ComponentCode.get_enum_define_with_comment
get_enum_define_with_comment(self, define_offset) ==
    Spaces(define_offset) \o <<self.name, "=">> \o PyStr(self.value) \o <<", ">>
    \o get_enum_doxy_comment(self) \o <<"\n">>

\* FacilityCode.get_facility_func_decl_string
get_facility_func_decl_string(self) ==
    <<"MAKE_ADUC_EXTENDEDRESULTCODE_FOR_FACILITY_", self.name>>

\* FacilityCode.get_func_def_string (facility_func_definition)
Facility_get_func_def_string(self) ==
    <<"/**\n * @brief Extended Result Codes for ", self.name, " Facility\n*/\n",
      "static inline ADUC_Result_t ">>
    \o get_facility_func_decl_string(self)
    \o <<"(const unsigned int component, const int32_t value)\n{\n",
         "    return ", "MAKE_ADUC_EXTENDEDRESULTCODE", "(", self.name,
         ", component, value);\n}\n">>

\* ComponentCode.get_component_func_decl_string
get_component_func_decl_string(self) ==
    <<"MAKE_ADUC_EXTENDEDRESULTCODE_FOR_COMPONENT_", self.name>>

\* ComponentCode.get_func_def_string returning a call of the generic
\* MAKE_ADUC_EXTENDEDRESULTCODE instead of the facility's accessor
Component_get_func_def_string_Direct(self, facility_func_decl) ==
    <<"/**\n* @brief Function for generating Extended Result Codes for ",
      self.name, " Component\n*/\n", "static inline ADUC_Result_t ">>
    \o get_component_func_decl_string(self)
    \o <<"(const int32_t value)\n{\n", "    return ",
         "MAKE_ADUC_EXTENDEDRESULTCODE", "(", self.name, ", value);\n}\n">>

\* ComponentCode.get_func_def_string (component_func_definition)
Component_get_func_def_string(self, facility_func_decl) ==
    <<"/**\n* @brief Function for generating Extended Result Codes for ",
      self.name, " Component\n*/\n", "static inline ADUC_Result_t ">>
    \o get_component_func_decl_string(self)
    \o <<"(const int32_t value)\n{\n", "    return ">>
    \o facility_func_decl
    \o <<"(", self.name, ", value);\n}\n">>

\* ResultCode.get_doxy_comment
Result_get_doxy_comment(self) ==
    CreateBriefDoxyString(<<self.name, ", ERC Value: ">>
                          \o WideStr(self.full_erc_value)
                          \o <<" (">> \o PyHex(self.full_erc_value) \o <<")">>)

\* ResultCode.get_c_definition
get_c_definition(self, component_func_decl, define_offset) ==
    <<"#">> \o Spaces(define_offset) \o <<"define ", self.name, " ">>
    \o component_func_decl \o <<"(">> \o PyStr(self.rc_value) \o <<")\n">>

\* ErrorCodeDefinitionGenerator.get_facility_enum_def
get_facility_enum_def(facs) ==
    LET entry(facility) == get_enum_define_with_comment(facility, tabsize * 2)
    IN  <<"/**\n * @brief Facility codes to pass to MAKE_ADUC_EXTENDEDRESULTCODE.\n */\n",
          "typedef enum tagADUC_Facility\n{\n">>
        \o Flatten([k \in DOMAIN facs |-> entry(facs[k])])
        \o <<"} ADUC_Facility;\n">>

\* ErrorCodeDefinitionGenerator.get_component_enum_for_facility
get_component_enum_for_facility(facility) ==
    LET entry(component) == get_enum_define_with_comment(component, tabsize * 2)
    IN  <<"typedef enum tag", facility.name, "_Components\n{\n">>
        \o Flatten([k \in DOMAIN facility.components |-> entry(facility.components[k])])
        \o <<"} ", facility.name, "_Components;\n\n">>

\* get_facility_and_component_code_defs without the test of
\* len(facility.components): an enumeration for every facility
get_facility_and_component_code_defs_AllFacilities(facs) ==
    LET enum(facility) == <<get_component_enum_for_facility(facility)>>
    IN  <<get_facility_enum_def(facs), <<"\n">> >> \o Flatten([k \in DOMAIN facs |-> enum(facs[k])])

\* ErrorCodeDefinitionGenerator.get_facility_and_component_code_defs
get_facility_and_component_code_defs(facs) ==
    LET enum(facility) ==
            IF Len(facility.components) # 0
            THEN <<get_component_enum_for_facility(facility)>>
            ELSE <<>>
    IN  <<get_facility_enum_def(facs), <<"\n">> >> \o Flatten([k \in DOMAIN facs |-> enum(facs[k])])

\* get_erc_make_functions with the accessors of all facilities before the
\* accessors of the components
get_erc_make_functions_FacilitiesFirst(facs) ==
    LET perFacility(facility) ==
            LET perComponent(component) ==
                    <<Component_get_func_def_string(
                          component, get_facility_func_decl_string(facility))
                      \o <<"\n">> >>
            IN  Flatten([k \in DOMAIN facility.components |-> perComponent(facility.components[k])])
    IN  [k \in DOMAIN facs |-> Facility_get_func_def_string(facs[k]) \o <<"\n">>]
        \o Flatten([k \in DOMAIN facs |-> perFacility(facs[k])])

\* ErrorCodeDefinitionGenerator.get_erc_make_functions
get_erc_make_functions(facs) ==
    LET perFacility(facility) ==
            LET perComponent(component) ==
                    <<Component_get_func_def_string(
                          component, get_facility_func_decl_string(facility))
                      \o <<"\n">> >>
            IN  <<Facility_get_func_def_string(facility) \o <<"\n">> >>
                \o Flatten([k \in DOMAIN facility.components |-> perComponent(facility.components[k])])
    IN  Flatten([k \in DOMAIN facs |-> perFacility(facs[k])])

\* ErrorCodeDefinitionGenerator.get_extended_result_code_defs
get_extended_result_code_defs(facs) ==
    LET perFacility(facility) ==
            LET perComponent(component) ==
                    LET perResult(result) ==
                            <<Result_get_doxy_comment(result)
                              \o get_c_definition(
                                     result,
                                     get_component_func_decl_string(component), 0)
                              \o <<"\n">> >>
                    IN  Flatten([k \in DOMAIN component.results |-> perResult(component.results[k])])
            IN  Flatten([k \in DOMAIN facility.components |-> perComponent(facility.components[k])])
    IN  Flatten([k \in DOMAIN facs |-> perFacility(facs[k])])

\* the template with the slot of the accessors before the slot of the enums
file_contents_FunctionsFirst(enums, functions, defines) ==
    << <<"/** @file result.h ... */ ... MAKE_ADUC_EXTENDEDRESULTCODE ...\n",
         "//\n// Facility and Component Code Definitions\n//\n">> >>
    \o functions
    \o << <<"//\n// Extended Result Code Make Functions\n//\n">> >>
    \o enums
    \o << <<"//\n// Extended Result Code Definitions\n//\n">> >>
    \o defines
    \o << <<"//\n// STATIC FUNCTIONS, NOT GENERATED BUT USE GENERATED FUNCTIONS\n//\n",
            "... #endif // ADUC_RESULT_H\n">> >>

\* error_code_definition_file.format(...): the fixed text of the template
\* around its three slots
file_contents(enums, functions, defines) ==
    << <<"/** @file result.h ... */ ... MAKE_ADUC_EXTENDEDRESULTCODE ...\n",
         "//\n// Facility and Component Code Definitions\n//\n">> >>
    \o enums
    \o << <<"//\n// Extended Result Code Make Functions\n//\n">> >>
    \o functions
    \o << <<"//\n// Extended Result Code Definitions\n//\n">> >>
    \o defines
    \o << <<"//\n// STATIC FUNCTIONS, NOT GENERATED BUT USE GENERATED FUNCTIONS\n//\n",
            "... #endif // ADUC_RESULT_H\n">> >>

----------------------------------------------------------------------------
(* The run: __main__, parse_json and generate_result_h_file *)

\* the file at result_h_path
NoFile == [exists |-> FALSE, text |-> <<>>]
OldFile == [exists |-> TRUE, text |-> << <<"an earlier result.h">> >>]
EmptyFile == [exists |-> TRUE, text |-> <<>>]
FileWith(text) == [exists |-> TRUE, text |-> text]

\* command lines: both paths given with the short options; no option; -h;
\* an option getopt does not know; a result path that ends with "/"; both
\* paths given with the long options, the path as the next argument or
\* after "="; --help
Argvs == {"-j -r", "", "-h", "-x", "-j -r dir/",
          "--json-file-path --result-file-path",
          "--json-file-path= --result-file-path=", "--help"}

\* sys.argv[1:] of a command line; "json" and "result" stand for the two
\* paths, "dir/" for a result path that ends with "/"
sys_argv(a) ==
    CASE a = "-j -r" -> <<"-j", "json", "-r", "result">>
      [] a = "" -> <<>>
      [] a = "-h" -> <<"-h">>
      [] a = "-x" -> <<"-x">>
      [] a = "-j -r dir/" -> <<"-j", "json", "-r", "dir/">>
      [] a = "--json-file-path --result-file-path" ->
             <<"--json-file-path", "json", "--result-file-path", "result">>
      [] a = "--json-file-path= --result-file-path=" ->
             <<"--json-file-path=json", "--result-file-path=result">>
      [] a = "--help" -> <<"--help">>

shortopts == [j |-> TRUE, r |-> TRUE, h |-> FALSE]
longopts == <<"json-file-path", "result-file-path", "help">>

\* the arguments that are words, not options
Words == {"json", "result", "dir/"}

\* the long options of longopts, none of which ends with "=": none takes an
\* argument
LongOptions == {"--" \o longopts[k] : k \in DOMAIN longopts}

\* getopt.getopt(sys.argv[1:], shortopts, longopts): the (option, value)
\* pairs up to the first argument that is no option; -j and -r take the next
\* argument as their value, -h and the long options take none, a long
\* option given with "=value" and an unknown option raise GetoptError
RECURSIVE getopt(_)
getopt(args) ==
    IF args = <<>> THEN <<>>
    ELSE LET a == Head(args)
         IN  IF a \in Words THEN <<>>
             ELSE IF a \in {"-j", "-r"} /\ shortopts[IF a = "-j" THEN "j" ELSE "r"]
             THEN IF Len(args) < 2 THEN << <<"GetoptError", a>> >>
                  ELSE << <<a, args[2]>> >> \o getopt(SubSeq(args, 3, Len(args)))
             ELSE IF a = "-h" \/ a \in LongOptions
             THEN << <<a, "">> >> \o getopt(Tail(args))
             ELSE << <<"GetoptError", a>> >>

\* getopt raised
GetoptError(optlist) == \E k \in DOMAIN optlist : optlist[k][1] = "GetoptError"

\* __main__: the loop over optlist; `exit` holds what is printed when the
\* loop ends the process, and is <<>> when the loop runs to its end
RECURSIVE ReadOptions(_, _, _)
ReadOptions(optlist, json_file_path, result_file_path) ==
    IF optlist = <<>>
    THEN [exit |-> <<>>, json_file_path |-> json_file_path,
          result_file_path |-> result_file_path]
    ELSE LET opt == Head(optlist)[1]
             val == Head(optlist)[2]
         IN  IF opt = "-j" \/ opt = "--" \o longopts[1]
             THEN ReadOptions(Tail(optlist), val, result_file_path)
             ELSE IF opt = "-r" \/ opt = "--" \o longopts[1]
             THEN ReadOptions(Tail(optlist), json_file_path, val)
             ELSE IF opt = "-h" \/ opt = "--" \o longopts[1]
             THEN [exit |-> << <<"Usage: ...">> >>,
                   json_file_path |-> json_file_path,
                   result_file_path |-> result_file_path]
             ELSE [exit |-> << <<"Unrecognized command ", opt>>, <<"Usage: ...">> >>,
                   json_file_path |-> json_file_path,
                   result_file_path |-> result_file_path]

\* at the json path: nothing; a directory; a file open() is refused; a file
\* that is removed before parse_json opens it; a file that is not json; a
\* json file without the key "facilities"; a document with that key
JsonFiles == {"absent", "directory", "unreadable", "removed", "not json",
              "no facilities", "document"}

\* at os.path.dirname of the result path: nothing, a file, a directory
ResultDirs == {"absent", "file", "directory"}

\* how many objects of the document at the json path are read at most
RecordBound ==
    IF json_file = "long document" THEN MaxLongRecords ELSE MaxRecords

\* an entry of doc: the json object and the list it was taken from
Read(kind, obj) == [kind |-> kind, obj |-> obj]

\* the json object the loops of parse_json are looking at
cur == IF doc = <<>> THEN Read("none", NoObject) ELSE doc[Len(doc)]

Init ==
    /\ pc = "main"
    /\ facilities = <<>>
    /\ doc = <<>>
    /\ parse_json_ret = ""
    /\ stdout = <<>>
    /\ result_h \in {NoFile, OldFile}
    /\ result_h_before = result_h
    /\ opens = 0
    /\ exitCode = <<>>
    /\ argv \in Argvs
    /\ json_file \in JsonFiles
    /\ result_dir \in ResultDirs
    /\ result_h.exists => (result_dir = "directory" /\ argv = "-j -r")
    /\ first = <<>>
    /\ reads = 0
    /\ writes = 0
    /\ ercArgs = <<>>
    /\ ercVal = <<>>

\* the first key of `fields` (pairs of key and expected type, in the order
\* the source reads them) that obj lacks ("KeyError") or holds with another
\* type (the key), or "ok"
RECURSIVE CheckFields(_, _)
CheckFields(obj, fields) ==
    IF fields = <<>> THEN "ok"
    ELSE IF obj[Head(fields)[1]].t = "missing" THEN "KeyError"
    ELSE IF obj[Head(fields)[1]].t # Head(fields)[2] THEN Head(fields)[1]
    ELSE CheckFields(obj, Tail(fields))

\* parse_json prints msg and returns False; facs is the model at that
\* moment
ReturnFalseWith(msg, facs) ==
    /\ pc' = "parse_false"
    /\ parse_json_ret' = "False"
    /\ stdout' = Append(stdout, msg)
    /\ facilities' = facs
    /\ UNCHANGED <<result_h, result_h_before, opens, exitCode>>

ReturnFalse(msg) == ReturnFalseWith(msg, facilities)

\* an exception nobody catches ends the process with a traceback; facs is
\* the model at that moment
UncaughtWith(exc, facs) ==
    /\ pc' = "exited"
    /\ parse_json_ret' = exc
    /\ exitCode' = <<1>>
    /\ stdout' = Append(stdout, <<"Traceback", exc>>)
    /\ facilities' = facs
    /\ UNCHANGED <<result_h, result_h_before, opens>>

Uncaught(exc) == UncaughtWith(exc, facilities)

\* facility_json_obj["components"], component_json_obj["results"]: the
\* exception that reading the key, or looping over its value, raises, or "ok"
CheckList(obj) ==
    IF obj.list.t = "missing" THEN "KeyError"
    ELSE IF obj.list.t # "list" THEN "TypeError"
    ELSE "ok"

\* __main__ prints msgs and ends the process with this status
MainExit(msgs, status) ==
    /\ pc' = "exited"
    /\ exitCode' = <<status>>
    /\ stdout' = stdout \o msgs

\* __main__ up to the call of parse_json: the options, the checks of the two
\* paths; quit() ends the process with status 0
MainStart ==
    /\ pc = "main"
    /\ LET optlist == getopt(sys_argv(argv))
           options == ReadOptions(optlist, "", "")
           json_file_path == options.json_file_path
           result_file_path == options.result_file_path
           overwriting ==
               IF result_h.exists \/ result_file_path = "dir/"
               THEN << <<"Overwriting file at ">> >> ELSE <<>>
       IN  CASE GetoptError(optlist) ->
                    MainExit(<< <<"Traceback", "GetoptError">> >>, 1)
             [] ~GetoptError(optlist) /\ options.exit # <<>> ->
                    MainExit(options.exit, 1)
             [] /\ ~GetoptError(optlist)
                /\ options.exit = <<>>
                /\ json_file_path = "" \/ result_file_path = "" ->
                    MainExit(<< <<"No arguments passed...">>, <<"Usage: ...">> >>, 1)
             [] /\ ~GetoptError(optlist)
                /\ options.exit = <<>>
                /\ json_file_path # "" /\ result_file_path # "" ->
                    CASE json_file = "absent" ->
                            MainExit(<< <<"The path: ", " does not exist!">> >>, 0)
                      [] json_file = "directory" ->
                            MainExit(<< <<"Option json-file-path must have a file path passed to it...">>,
                                        <<" is not a file">> >>, 1)
                      [] json_file \notin {"absent", "directory"}
                           /\ result_dir = "absent" ->
                            MainExit(<< <<"The directory for: ", " does not exist!">> >>, 1)
                      [] json_file \notin {"absent", "directory"}
                           /\ result_dir = "file" ->
                            MainExit(<< <<"The parent directory for the file to be generated is not a directory!">>,
                                        <<" is not a directory">> >>, 1)
                      [] json_file \notin {"absent", "directory"}
                           /\ result_dir = "directory"
                           /\ result_file_path = "dir/" ->
                            MainExit(overwriting
                                     \o << <<"result-file-path must end with a file to create!">> >>, 1)
                      [] json_file \notin {"absent", "directory"}
                           /\ result_dir = "directory"
                           /\ result_file_path # "dir/" ->
                            /\ pc' = "parse_json"
                            /\ stdout' = stdout \o overwriting
                                          \o << <<"Generating result.h file at: ">>,
                                                <<"Parsing JSON file...">> >>
                            /\ UNCHANGED exitCode
    /\ UNCHANGED <<facilities, doc, parse_json_ret, result_h, result_h_before, opens,
                   envVars, countVars, ercVars>>

\* what open(self.json_path), json.load(file) and result_json["facilities"]
\* do with the file at the json path
OpenOutcome(file) ==
    CASE file \in {"document", "long document"} -> "ok"
      [] file \in {"absent", "removed"} -> "FileNotFoundError"
      [] file \in {"unreadable", "directory"} -> "OSError"
      [] file = "not json" -> "JSONDecodeError"
      [] file = "no facilities" -> "no facilities key"

\* parse_json: open(self.json_path), json.load(file), result_json["facilities"]
ParseOpen(outcome) ==
    /\ pc = "parse_json"
    /\ outcome = OpenOutcome(json_file)
    /\ CASE outcome = "ok" ->
                /\ pc' = "parsing"
                /\ UNCHANGED <<stdout, facilities, parse_json_ret, result_h,
                               result_h_before, opens, exitCode>>
         [] outcome = "FileNotFoundError" ->
                ReturnFalse(<<"Could not JSON file for reading">>)
         [] outcome = "OSError" ->
                ReturnFalse(<<"An unknown error occurred while opening the json file">>)
         [] outcome = "JSONDecodeError" ->
                ReturnFalse(<<"An unknown error occurred while loading the json">>)
         [] outcome = "no facilities key" ->
                Uncaught("KeyError")
    /\ reads' = reads + 1
    /\ UNCHANGED <<doc, envVars, writes, ercVars>>

\* parse_json: one pass of the loop over the facilities
NextFacility(obj) ==
    /\ pc = "parsing"
    /\ Len(doc) < RecordBound
    /\ doc' = Append(doc, Read("facility", obj))
    /\ LET bad == CheckFields(obj, << <<"code", "int">>, <<"name", "str">>,
                                      <<"doc_string", "str">> >>)
           facility == FacilityCode(obj.name.s, obj.code.i, obj.doc_string.s)
           added == add_facility_code(facilities, facility)
       IN  CASE bad = "KeyError" -> Uncaught("KeyError")
             [] bad = "code" -> ReturnFalse(<<"Facility codes must be of type int">>)
             [] bad = "name" -> ReturnFalse(<<"Facility names must be of type str">>)
             [] bad = "doc_string" ->
                    ReturnFalse(<<"Facility doc strings must be of type str">>)
             [] bad = "ok" /\ ~added.ok ->
                    ReturnFalseWith(<<"Facility ", obj.name.s, " is a duplicate!">>,
                                    added.list)
             [] bad = "ok" /\ added.ok /\ CheckList(obj) # "ok" ->
                    UncaughtWith(CheckList(obj), added.list)
             [] bad = "ok" /\ added.ok /\ CheckList(obj) = "ok" ->
                    /\ facilities' = added.list
                    /\ UNCHANGED <<pc, parse_json_ret, stdout, result_h,
                                   result_h_before, opens, exitCode>>
    /\ UNCHANGED <<envVars, countVars,
                   ercVars>>

\* parse_json: one pass of the loop over the components of the facility
\* added last
NextComponent(obj) ==
    /\ pc = "parsing"
    /\ Len(doc) < RecordBound
    /\ Len(facilities) > 0
    /\ doc' = Append(doc, Read("component", obj))
    /\ LET bad == CheckFields(obj, << <<"code", "int">>, <<"name", "str">>,
                                      <<"doc_string", "str">> >>)
           fi == Len(facilities)
           facility == facilities[fi]
           component == ComponentCode(obj.name.s, obj.code.i, obj.doc_string.s,
                                      facility.value)
           added == add_component(facility.components, component)
       IN  CASE bad = "KeyError" -> Uncaught("KeyError")
             [] bad = "code" -> ReturnFalse(<<"Component codes must be of type int">>)
             [] bad = "name" -> ReturnFalse(<<"Component names must be of type str">>)
             [] bad = "doc_string" ->
                    ReturnFalse(<<"Component doc strings must of type str">>)
             [] bad = "ok" /\ ~added.ok ->
                    ReturnFalseWith(<<"Component ", obj.name.s, " is a duplicate!">>,
                                    [facilities EXCEPT ![fi].components = added.list])
             [] bad = "ok" /\ added.ok /\ CheckList(obj) # "ok" ->
                    UncaughtWith(CheckList(obj),
                                 [facilities EXCEPT ![fi].components = added.list])
             [] bad = "ok" /\ added.ok /\ CheckList(obj) = "ok" ->
                    /\ facilities' = [facilities EXCEPT ![fi].components = added.list]
                    /\ UNCHANGED <<pc, parse_json_ret, stdout, result_h,
                                   result_h_before, opens, exitCode>>
    /\ UNCHANGED <<envVars, countVars,
                   ercVars>>

\* parse_json: one pass of the loop over the results of the component added
\* last
NextResult(obj) ==
    /\ pc = "parsing"
    /\ Len(doc) < RecordBound
    /\ Len(facilities) > 0
    /\ Len(facilities[Len(facilities)].components) > 0
    /\ doc' = Append(doc, Read("result", obj))
    /\ LET bad == CheckFields(obj, << <<"value", "int">>, <<"name", "str">> >>)
           fi == Len(facilities)
           facility == facilities[fi]
           ci == Len(facility.components)
           component == facility.components[ci]
           result == ResultCode(obj.name.s, obj.value.i, facility.value,
                                component.value)
           added == add_result(component.results, result)
       IN  CASE bad = "KeyError" -> Uncaught("KeyError")
             [] bad = "value" -> ReturnFalse(<<"Result code must be of type int">>)
             [] bad = "name" -> ReturnFalse(<<"Result name must be of type str">>)
             [] bad = "ok" /\ ~added.ok ->
                    ReturnFalseWith(<<"Result code: ", obj.name.s, " is a duplicate!">>,
                                    [facilities EXCEPT
                                         ![fi].components[ci].results = added.list])
             [] bad = "ok" /\ added.ok ->
                    /\ facilities' =
                           [facilities EXCEPT ![fi].components[ci].results = added.list]
                    /\ UNCHANGED <<pc, parse_json_ret, stdout, result_h,
                                   result_h_before, opens, exitCode>>
    /\ UNCHANGED <<envVars, countVars,
                   ercVars>>

\* parse_json: the loops are exhausted, return True; __main__ goes on to
\* generate_result_h_file
ParseReturnTrue ==
    /\ pc = "parsing"
    /\ pc' = "generate"
    /\ parse_json_ret' = "True"
    /\ stdout' = Append(stdout, <<"Generating result.h file...">>)
    /\ UNCHANGED <<facilities, doc, result_h, result_h_before, opens,
                   exitCode, envVars, countVars,
                   ercVars>>

\* __main__ with the sys.exit(1) after a failed parse missing
MainParseFailed_NoExit ==
    /\ pc = "parse_false"
    /\ pc' = "generate"
    /\ stdout' = Append(stdout, <<"Failed to parse json file">>)
    /\ UNCHANGED <<facilities, doc, parse_json_ret, result_h, result_h_before, opens,
                   exitCode, envVars, countVars,
                   ercVars>>

\* __main__: parse_json returned False
MainParseFailed ==
    /\ pc = "parse_false"
    /\ pc' = "exited"
    /\ exitCode' = <<1>>
    /\ stdout' = Append(stdout, <<"Failed to parse json file">>)
    /\ UNCHANGED <<facilities, doc, parse_json_ret, result_h, result_h_before, opens,
                   envVars, countVars,
                   ercVars>>

\* generate_result_h_file with the check for an empty section missing
GenerateSections_NoCheck ==
    /\ pc = "generate"
    /\ pc' = "open_result_h"
    /\ UNCHANGED <<facilities, doc, parse_json_ret, stdout, result_h, result_h_before,
                   opens, exitCode, envVars, countVars,
                   ercVars>>

\* generate_result_h_file: the three sections and the check that none is ""
GenerateSections ==
    /\ pc = "generate"
    /\ LET facility_and_component_code_defs ==
               get_facility_and_component_code_defs(facilities)
           erc_generation_functions == get_erc_make_functions(facilities)
           extended_result_code_defs == get_extended_result_code_defs(facilities)
       IN  IF \/ facility_and_component_code_defs = <<>>
              \/ erc_generation_functions = <<>>
              \/ extended_result_code_defs = <<>>
           THEN pc' = "generate_false"
           ELSE pc' = "open_result_h"
    /\ UNCHANGED <<facilities, doc, parse_json_ret, stdout, result_h, result_h_before,
                   opens, exitCode, envVars, countVars,
                   ercVars>>

\* the text generate_result_h_file writes
FileContents(facs) ==
    file_contents(get_facility_and_component_code_defs(facs),
                  get_erc_make_functions(facs),
                  get_extended_result_code_defs(facs))

\* generate_result_h_file opening result_h_path with mode 'a': the file
\* keeps what it holds and the text is written after it
OpenResultH_Append(ok) ==
    /\ pc = "open_result_h"
    /\ opens' = opens + 1
    /\ IF ok
       THEN /\ result_h' = FileWith(result_h.text)
            /\ pc' = "write_result_h"
            /\ UNCHANGED stdout
       ELSE /\ pc' = "generate_false"
            /\ stdout' = Append(stdout, <<"An unknown error occurred">>)
            /\ UNCHANGED result_h
    /\ UNCHANGED <<facilities, doc, parse_json_ret, result_h_before, exitCode, envVars, countVars,
                   ercVars>>

\* generate_result_h_file: open(self.result_h_path, 'w'), which creates or
\* truncates the file, or raises
OpenResultH(ok) ==
    /\ pc = "open_result_h"
    /\ opens' = opens + 1
    /\ IF ok
       THEN /\ result_h' = EmptyFile
            /\ pc' = "write_result_h"
            /\ UNCHANGED stdout
       ELSE /\ pc' = "generate_false"
            /\ stdout' = Append(stdout, <<"An unknown error occurred">>)
            /\ UNCHANGED result_h
    /\ UNCHANGED <<facilities, doc, parse_json_ret, result_h_before, exitCode, envVars, countVars,
                   ercVars>>

\* generate_result_h_file calling write again after a write that raised
WriteResultH_Retry(ok, written) ==
    /\ pc = "write_result_h"
    /\ IF ok
       THEN /\ result_h' = FileWith(result_h.text \o FileContents(facilities))
            /\ pc' = "generate_true"
       ELSE /\ result_h' = FileWith(result_h.text)
            /\ pc' = "write_result_h"
    /\ writes' = writes + 1
    /\ UNCHANGED <<facilities, doc, parse_json_ret, stdout, result_h_before, opens,
                   exitCode, envVars, reads, ercVars>>

\* generate_result_h_file: result_h_file.write(file_contents) and the close
\* of the file; when it raises, the blocks before the one numbered
\* `written` from the end have reached the file (written = 0: none has)
WriteResultH(ok, written) ==
    /\ pc = "write_result_h"
    /\ IF ok
       THEN /\ result_h' = FileWith(result_h.text \o FileContents(facilities))
            /\ pc' = "generate_true"
            /\ UNCHANGED stdout
       ELSE /\ result_h' =
                   FileWith(result_h.text
                            \o IF written = 0 THEN <<>>
                               ELSE SubSeq(FileContents(facilities), 1,
                                           Len(FileContents(facilities)) - written))
            /\ pc' = "generate_false"
            /\ stdout' = Append(stdout, <<"An unknown error occurred">>)
    /\ writes' = writes + 1
    /\ UNCHANGED <<facilities, doc, parse_json_ret, result_h_before, opens, exitCode,
                   envVars, reads,
                   ercVars>>

\* __main__: generate_result_h_file returned False
MainGenerateFailed ==
    /\ pc = "generate_false"
    /\ pc' = "exited"
    /\ exitCode' = <<1>>
    /\ stdout' = Append(stdout, <<"Failed to generate result.h file">>)
    /\ UNCHANGED <<facilities, doc, parse_json_ret, result_h, result_h_before, opens,
                   envVars, countVars,
                   ercVars>>

\* __main__: generate_result_h_file returned True
MainSuccess ==
    /\ pc = "generate_true"
    /\ pc' = "exited"
    /\ exitCode' = <<0>>
    /\ UNCHANGED <<facilities, doc, parse_json_ret, stdout, result_h, result_h_before,
                   opens, envVars, countVars,
                   ercVars>>

Next ==
    \/ MainStart
    \/ \E outcome \in {"ok", "FileNotFoundError", "OSError", "JSONDecodeError",
                       "no facilities key"} : ParseOpen(outcome)
    \/ \E obj \in FacilityObjects : NextFacility(obj)
    \/ \E obj \in ComponentObjects : NextComponent(obj)
    \/ \E obj \in ResultObjects : NextResult(obj)
    \/ ParseReturnTrue
    \/ MainParseFailed
    \/ GenerateSections
    \/ \E ok \in BOOLEAN : OpenResultH(ok)
    \/ WriteResultH(TRUE, 0)
    \/ \E written \in {0, 1} : WriteResultH(FALSE, written)
    \/ MainGenerateFailed
    \/ MainSuccess

Spec == Init /\ [][Next]_vars

----------------------------------------------------------------------------
(* Two runs of the generator, one after the other, with the same command   *)
(* line on the same files                                                  *)

\* what a run that has exited leaves to compare a later run with
Outcome ==
    [doc |-> doc, facilities |-> facilities, parse_json_ret |-> parse_json_ret,
     stdout |-> stdout, opens |-> opens, exitCode |-> exitCode,
     result_h |-> result_h]

\* the process has exited and the script is started again: a new
\* ErrorCodeDefinitionGenerator with no facilities; the files are what the
\* first run left
Rerun ==
    /\ pc = "exited"
    /\ first = <<>>
    /\ first' = <<Outcome>>
    /\ pc' = "main"
    /\ facilities' = <<>>
    /\ doc' = <<>>
    /\ parse_json_ret' = ""
    /\ stdout' = <<>>
    /\ opens' = 0
    /\ exitCode' = <<>>
    /\ result_h_before' = result_h
    /\ reads' = 0
    /\ writes' = 0
    /\ UNCHANGED <<result_h, argv, json_file, result_dir, ercVars>>

\* the second run reads the document the first run read: the same objects
\* in the same order, and the lists do not end before the place where the
\* first run stopped reading
SameDocument ==
    first # <<>> =>
        /\ Len(doc') <= Len(first[1].doc)
        /\ doc' = SubSeq(first[1].doc, 1, Len(doc'))
        /\ (pc = "parsing" /\ pc' # "parsing" /\ doc' = doc) => doc = first[1].doc

NextRerun ==
    \/ /\ Next
       /\ Len(doc') <= MaxRerunRecords
       /\ SameDocument
    \/ Rerun

SpecRerun == Init /\ [][NextRerun]_vars

----------------------------------------------------------------------------
(* Runs on a longer document of well-typed objects                         *)

LongFacilityObjects ==
    { JObject(JInt(1), JStr("FAC_A"), JStr("doc"), Missing),
      JObject(JInt(16), JStr("FAC_B"), JStr("doc"), Missing) }

LongComponentObjects ==
    { JObject(JInt(c), JStr(n), JStr("doc"), Missing) :
        c \in ComponentCodeValues, n \in ComponentNames }

LongResultObjects ==
    { JObject(Missing, JStr(n), Missing, JInt(v)) :
        v \in {5, 6}, n \in ResultNames }

\* the object read last is one of the long document
LongRecord ==
    \/ cur.kind = "facility" /\ cur.obj \in LongFacilityObjects
    \/ cur.kind = "component" /\ cur.obj \in LongComponentObjects
    \/ cur.kind = "result" /\ cur.obj \in LongResultObjects

InitLong ==
    /\ pc = "main"
    /\ facilities = <<>>
    /\ doc = <<>>
    /\ parse_json_ret = ""
    /\ stdout = <<>>
    /\ result_h = NoFile
    /\ result_h_before = result_h
    /\ opens = 0
    /\ exitCode = <<>>
    /\ argv = "-j -r"
    /\ json_file = "long document"
    /\ result_dir = "directory"
    /\ first = <<>>
    /\ reads = 0
    /\ writes = 0
    /\ ercArgs = <<>>
    /\ ercVal = <<>>

NextLong ==
    /\ Next
    /\ doc' # doc => LongRecord'

SpecLong == InitLong /\ [][NextLong]_vars

-----------------------------------------------------------------------------
(* A caller of the class that goes on with the same generator after        *)
(* parse_json has returned                                                 *)

\* parse_json is called a second time on the same generator, with the same
\* json path: self.facilities is what the first call left
ParseAgain ==
    /\ pc \in {"parse_false", "generate"}
    /\ first = <<>>
    /\ first' = <<Outcome>>
    /\ pc' = "parse_json"
    /\ doc' = <<>>
    /\ parse_json_ret' = ""
    /\ UNCHANGED <<facilities, stdout, result_h, result_h_before, opens, exitCode,
                   argv, json_file, result_dir, countVars, ercVars>>

\* generate_result_h_file is called on the generator although parse_json
\* returned False
GenerateAfterFalse ==
    /\ pc = "parse_false"
    /\ pc' = "generate"
    /\ UNCHANGED <<facilities, doc, parse_json_ret, stdout, result_h,
                   result_h_before, opens, exitCode, envVars, countVars, ercVars>>

NextCaller ==
    \/ /\ Next
       /\ doc' # doc => LongRecord'
       /\ SameDocument
    \/ ParseAgain
    \/ GenerateAfterFalse

SpecCaller == InitLong /\ [][NextCaller]_vars

-----------------------------------------------------------------------------
(* Direct calls of MakeERC *)

Pow20 == Pow2(20)

ErcFacilityArgs == (0 - ErcSpread)..(15 + ErcSpread)
ErcComponentArgs ==
    ((0 - ErcSpread)..ErcSpread) \cup ((255 - ErcSpread)..(255 + ErcSpread))
ErcResultArgs ==
    ((0 - ErcSpread)..ErcSpread) \cup ((Pow20 - 1 - ErcSpread)..(Pow20 - 1 + ErcSpread))
    \cup {0 - Pow20, 2 * Pow20 + 5}

CallMakeERC(f, c, v) ==
    /\ ercArgs = <<>>
    /\ ercArgs' = <<f, c, v>>
    /\ ercVal' = MakeERC(f, c, v)
    /\ UNCHANGED <<mainVars, envVars, countVars>>

NextERC ==
    \E f \in ErcFacilityArgs, c \in ErcComponentArgs, v \in ErcResultArgs :
        CallMakeERC(f, c, v)

\* no run of __main__ takes place: the command line and the files are fixed
InitERC ==
    /\ Init
    /\ argv = "-j -r"
    /\ json_file = "document"
    /\ result_dir = "directory"

SpecERC == InitERC /\ [][NextERC]_vars

-----------------------------------------------------------------------------
(* The accessor MAKE_ADUC_EXTENDEDRESULTCODE of the generated text *)

\* a wide number without its high zero bits
RECURSIVE Canonical(_)
Canonical(w) ==
    IF w = <<>> THEN <<>>
    ELSE IF w[Len(w)] = 0 THEN Canonical(SubSeq(w, 1, Len(w) - 1))
    ELSE w

\* w + 1 on a wide number
RECURSIVE Inc(_)
Inc(w) ==
    IF w = <<>> THEN <<1>>
    ELSE IF Head(w) = 0 THEN <<1>> \o Tail(w)
    ELSE <<0>> \o Inc(Tail(w))

\* the conversion of an unsigned int below 2^32 to ADUC_Result_t (int32_t)
\* in the return statement: a value with bit 31 set becomes the negative
\* number with the same 32 bits, of magnitude 2^32 - u
ToInt32(u) ==
    IF Bit(u, 31) = 0
    THEN [negative |-> FALSE, magnitude |-> u]
    ELSE [negative |-> TRUE,
          magnitude |-> Canonical(Inc([k \in 1..32 |-> 1 - Bit(u, k - 1)]))]

\* return ((facility & 0xF) << 0x1C) | ((component & 0xFF) << 0x14) | (value & 0xFFFFF);
\* on unsigned int arguments, returned as ADUC_Result_t
MAKE_ADUC_EXTENDEDRESULTCODE(facility, component, value) ==
    ToInt32(PyOr(PyOr(PyShl(ToWide(PyAnd(facility, 15)), 28),
                      PyShl(ToWide(PyAnd(component, 255)), 20)),
                 ToWide(PyAnd(value, 1048575))))

----------------------------------------------------------------------------
(* Properties of MakeERC, checked under SpecERC *)

InRangeCall ==
    /\ ercArgs # <<>>
    /\ ercArgs[1] \in 0..15
    /\ ercArgs[2] \in 0..255
    /\ ercArgs[3] \in 0..(Pow20 - 1)

\* bits 28-31, 20-27 and 0-19 of a packed code
Unpack(w) == <<BitField(w, 28, 31), BitField(w, 20, 27), BitField(w, 0, 19)>>

\* C1: for an in-range triple (f in 0..15, c in 0..255, v in 0..2^20-1) the
\* bits 28-31, 20-27 and 0-19 of MakeERC(f, c, v) are f, c and v again
C1_RoundTrip == InRangeCall => Unpack(ercVal) = ercArgs

\* C1 witness: the largest in-range triple has been packed, into 32 one bits
C1_Witness ==
    /\ ercArgs = <<15, 255, Pow20 - 1>>
    /\ ercVal = [k \in 1..32 |-> 1]

\* C2: for any integers f, c, v (negative and out-of-range ones too)
\* MakeERC(f, c, v) is defined, lies in 0..2^32-1, holds f mod 16 in bits
\* 28-31, c mod 256 in bits 20-27 and v mod 2^20 in bits 0-19, and equals
\* MakeERC(f mod 16, c mod 256, v mod 2^20)
C2_MaskPack ==
    ercArgs # <<>> =>
        /\ Len(ercVal) <= 32
        /\ \A k \in DOMAIN ercVal : ercVal[k] \in {0, 1}
        /\ ercVal # <<>> => ercVal[Len(ercVal)] = 1
        /\ Unpack(ercVal) = <<ercArgs[1] % 16, ercArgs[2] % 256, ercArgs[3] % Pow20>>
        /\ ercVal = MakeERC(ercArgs[1] % 16, ercArgs[2] % 256, ercArgs[3] % Pow20)

\* C2 witness: a negative facility, a component of 256 and a value of 2^20
\* have been packed: the facility is read as 15, the other two as 0
C2_Witness ==
    /\ ercArgs = <<0 - 1, 256, Pow20>>
    /\ ercVal = Zeros(28) \o <<1, 1, 1, 1>>

----------------------------------------------------------------------------
(* Properties of the run, checked under Spec *)

IsPrefix(a, b) == Len(a) <= Len(b) /\ a = SubSeq(b, 1, Len(a))

\* the tokens toks occur, in this order and next to each other, in a block
\* of text
HasTokens(text, toks) ==
    \E b \in DOMAIN text :
        \E k \in 1..(Len(text[b]) - Len(toks) + 1) :
            SubSeq(text[b], k, k + Len(toks) - 1) = toks

\* the fields of the object have the types parse_json asks for
FieldsTyped(entry) ==
    IF entry.kind = "result"
    THEN entry.obj.value.t = "int" /\ entry.obj.name.t = "str"
    ELSE entry.obj.code.t = "int" /\ entry.obj.name.t = "str"
         /\ entry.obj.doc_string.t = "str"

\* and so has its list of components or results
WellTyped(entry) ==
    /\ FieldsTyped(entry)
    /\ entry.kind # "result" => entry.obj.list.t = "list"

\* parse_json failed: it returned False or raised
ParseFailed == parse_json_ret \notin {"", "True"}

\* the components of the facility being parsed, the results of the component
\* being parsed
CurComponents == facilities[Len(facilities)].components
CurResults == CurComponents[Len(CurComponents)].results

\* this step takes an object of this kind from the document
Reading(kind) ==
    /\ pc = "parsing"
    /\ Len(doc') = Len(doc) + 1
    /\ doc'[Len(doc')].kind = kind

\* this step is parse_json returning False with the model as it was
RejectedStep ==
    /\ parse_json_ret' = "False"
    /\ pc' = "parse_false"
    /\ facilities' = facilities

MinimalDoc ==
    << Read("facility", JObject(JInt(1), JStr("FAC_A"), JStr("doc"), Missing)),
       Read("component", JObject(JInt(2), JStr("COMP_X"), JStr("doc"), Missing)),
       Read("result", JObject(Missing, JStr("RES_OK"), Missing, JInt(5))) >>

MinimalParsed == doc = MinimalDoc /\ parse_json_ret = "True"

\* the run ended on a failure of open() or write() of result.h
OutputFailed ==
    /\ opens = 1
    /\ \E k \in DOMAIN stdout : stdout[k] = <<"An unknown error occurred">>

\* C3: the document with the one facility 1 FAC_A, its one component 2
\* COMP_X and its one result 5 RES_OK is parsed without failure; the result's
\* packed code is 0x10200005 (270532613); generation fails only if opening or
\* writing result.h fails, and otherwise the run exits with 0 and result.h
\* defines RES_OK as a call of the accessor of COMP_X, which returns a call
\* of the accessor of FAC_A, which calls MAKE_ADUC_EXTENDEDRESULTCODE with FAC_A
C3_MinimalSpec ==
    /\ (doc # <<>> /\ IsPrefix(doc, MinimalDoc)) => ~ParseFailed
    /\ MinimalParsed =>
        /\ Len(facilities) = 1
        /\ Len(facilities[1].components) = 1
        /\ Len(facilities[1].components[1].results) = 1
        /\ PyHex(facilities[1].components[1].results[1].full_erc_value)
               = <<"0x", "1", "0", "2", "0", "0", "0", "0", "5">>
        /\ WideStr(facilities[1].components[1].results[1].full_erc_value)
               = <<"2", "7", "0", "5", "3", "2", "6", "1", "3">>
        /\ pc = "generate_false" => OutputFailed
        /\ pc = "exited" => (exitCode = <<0>> \/ OutputFailed)
        /\ (pc = "generate_true" \/ exitCode = <<0>>) =>
            /\ result_h.exists
            /\ HasTokens(result_h.text,
                   <<"define ", "RES_OK", " ",
                     "MAKE_ADUC_EXTENDEDRESULTCODE_FOR_COMPONENT_", "COMP_X",
                     "(", "5", ")\n">>)
            /\ HasTokens(result_h.text,
                   <<"RES_OK", ", ERC Value: ", "2", "7", "0", "5", "3", "2", "6", "1", "3",
                     " (", "0x", "1", "0", "2", "0", "0", "0", "0", "5", ")">>)
            /\ HasTokens(result_h.text,
                   <<"static inline ADUC_Result_t ",
                     "MAKE_ADUC_EXTENDEDRESULTCODE_FOR_COMPONENT_", "COMP_X",
                     "(const int32_t value)\n{\n", "    return ",
                     "MAKE_ADUC_EXTENDEDRESULTCODE_FOR_FACILITY_", "FAC_A",
                     "(", "COMP_X", ", value);\n}\n">>)
            /\ HasTokens(result_h.text,
                   <<"static inline ADUC_Result_t ",
                     "MAKE_ADUC_EXTENDEDRESULTCODE_FOR_FACILITY_", "FAC_A",
                     "(const unsigned int component, const int32_t value)\n{\n",
                     "    return ", "MAKE_ADUC_EXTENDEDRESULTCODE", "(", "FAC_A",
                     ", component, value);\n}\n">>)

\* C3 witness: the run on the minimal document has exited with 0 and
\* result.h holds the generated text
C3_Witness ==
    /\ MinimalParsed
    /\ exitCode = <<0>>
    /\ result_h = FileWith(FileContents(facilities))

FacilitiesDistinct ==
    \A i, j \in DOMAIN facilities :
        i # j => /\ facilities[i].name # facilities[j].name
                 /\ facilities[i].value # facilities[j].value

\* a well-typed facility object whose code or whose name is that of a
\* facility of the model is rejected
FacilityClashRejected ==
    LET new == doc'[Len(doc')].obj
    IN  ( /\ Reading("facility")
          /\ WellTyped(doc'[Len(doc')])
          /\ \E i \in DOMAIN facilities :
                 \/ facilities[i].value = new.code.i
                 \/ facilities[i].name = new.name.s )
        => RejectedStep

\* C4: a facility whose code, or whose name, is that of a facility already in
\* the model is rejected (parse_json returns False, the model is unchanged);
\* in every state the facilities have pairwise distinct names and pairwise
\* distinct codes
C4_FacilityUnique == [] FacilitiesDistinct /\ [][FacilityClashRejected]_vars

\* C4 witness: FAC_B with the code 1 of FAC_A, already in the model, has been
\* rejected
C4_Witness ==
    /\ Len(doc) = 2
    /\ doc[1].obj.code = JInt(1) /\ doc[1].obj.name = JStr("FAC_A")
    /\ doc[2].kind = "facility"
    /\ doc[2].obj.code = JInt(1) /\ doc[2].obj.name = JStr("FAC_B")
    /\ parse_json_ret = "False"
    /\ Len(facilities) = 1

\* C5 (as claimed): a well-typed facility object with a code outside 0..15 is
\* rejected, and every facility of the model has a code in 0..15
C5_FacilityCodeRange ==
    /\ \A i \in DOMAIN facilities : facilities[i].value \in 0..15
    /\ ( /\ cur.kind = "facility"
         /\ WellTyped(cur)
         /\ cur.obj.code.i \notin 0..15 ) => parse_json_ret = "False"

\* C6 (as claimed): a well-typed component object with a code outside 0..255
\* is rejected, and every component of the model has a code in 0..255
C6_ComponentCodeRange ==
    /\ \A i \in DOMAIN facilities :
           \A j \in DOMAIN facilities[i].components :
               facilities[i].components[j].value \in 0..255
    /\ ( /\ cur.kind = "component"
         /\ WellTyped(cur)
         /\ cur.obj.code.i \notin 0..255 ) => parse_json_ret = "False"

ComponentsDistinct ==
    \A f \in DOMAIN facilities :
        \A i, j \in DOMAIN facilities[f].components :
            i # j => /\ facilities[f].components[i].name
                            # facilities[f].components[j].name
                     /\ facilities[f].components[i].value
                            # facilities[f].components[j].value

\* a well-typed component object is rejected if its code or its name is that
\* of a component of the facility being parsed, and is otherwise appended to
\* that facility, whatever the other facilities hold
ComponentClashScoped ==
    LET new == doc'[Len(doc')].obj
        fi == Len(facilities)
    IN  (Reading("component") /\ WellTyped(doc'[Len(doc')])) =>
            IF \E i \in DOMAIN CurComponents :
                   \/ CurComponents[i].value = new.code.i
                   \/ CurComponents[i].name = new.name.s
            THEN RejectedStep
            ELSE /\ parse_json_ret' = parse_json_ret
                 /\ pc' = "parsing"
                 /\ Len(facilities') = fi
                 /\ \A k \in 1..(fi - 1) : facilities'[k] = facilities[k]
                 /\ Len(facilities'[fi].components) = Len(CurComponents) + 1
                 /\ LET c == facilities'[fi].components[Len(CurComponents) + 1]
                    IN  c.name = new.name.s /\ c.value = new.code.i

\* C7: within one facility no two components share a name or a code: a
\* component clashing with one of its own facility is rejected, one that
\* clashes only with components of other facilities is accepted
C7_ComponentScoped == [] ComponentsDistinct /\ [][ComponentClashScoped]_vars

\* C7 witness: the second facility has accepted a component with the code of
\* a component of the first
C7_Witness ==
    /\ Len(facilities) = 2
    /\ Len(facilities[1].components) = 1
    /\ Len(facilities[2].components) = 1
    /\ facilities[1].components[1].value = facilities[2].components[1].value
    /\ ~ParseFailed

\* the entries of doc before the last that are results of the component
\* being parsed: the run of result entries that ends right before cur
RECURSIVE ResultRun(_)
ResultRun(k) ==
    IF k >= 1 /\ doc[k].kind = "result" THEN ResultRun(k - 1) \cup {k} ELSE {}

EarlierResults == IF doc = <<>> THEN {} ELSE ResultRun(Len(doc) - 1)

\* the last object read is a well-typed result whose raw value is that of a
\* result already in its component, and whose name is that of none
SameValueNewName ==
    /\ cur.kind = "result"
    /\ WellTyped(cur)
    /\ \E k \in EarlierResults : doc[k].obj.value.i = cur.obj.value.i
    /\ \A k \in EarlierResults : doc[k].obj.name.s # cur.obj.name.s

\* C8 (as claimed): a result with the raw value of a result already in its
\* component, but a new name, is accepted and appears in the component's
\* result list beside the earlier one
C8_SameValueAccepted ==
    SameValueNewName =>
        /\ ~ParseFailed
        /\ Len(CurResults) = Cardinality(EarlierResults) + 1
        /\ CurResults[Len(CurResults)].name = cur.obj.name.s

\* C8 (amended): a result with the raw value of a result already in its
\* component is rejected although its name is new: parse_json reports it as
\* a duplicate and returns False, the run ends without generating, and the
\* component's result list holds the earlier results only
C8_SameValueRejected ==
    SameValueNewName =>
        /\ parse_json_ret = "False"
        /\ pc \in {"parse_false", "exited"}
        /\ stdout[IF pc = "exited" THEN Len(stdout) - 1 ELSE Len(stdout)]
               = <<"Result code: ", cur.obj.name.s, " is a duplicate!">>
        /\ Len(CurResults) = Cardinality(EarlierResults)
        /\ \A i \in DOMAIN CurResults : CurResults[i].name # cur.obj.name.s
        /\ opens = 0
        /\ result_h = result_h_before

\* C8 witness: RES_ERR with the value 5 of RES_OK has been rejected and the
\* run has exited with 1
C8_Witness ==
    /\ Len(doc) = 4
    /\ doc[3] = Read("result", JObject(Missing, JStr("RES_OK"), Missing, JInt(5)))
    /\ doc[4] = Read("result", JObject(Missing, JStr("RES_ERR"), Missing, JInt(5)))
    /\ exitCode = <<1>>
    /\ Len(CurResults) = 1

ResultsDistinct ==
    \A f \in DOMAIN facilities :
        \A c \in DOMAIN facilities[f].components :
            LET results == facilities[f].components[c].results
            IN  \A i, j \in DOMAIN results :
                    i # j => /\ results[i].name # results[j].name
                             /\ results[i].full_erc_value # results[j].full_erc_value
                             /\ results[i].rc_value # results[j].rc_value

\* a well-typed result object whose name, or whose packed code, is that of a
\* result of the component being parsed is rejected
ResultClashRejected ==
    LET new == doc'[Len(doc')].obj
        code == MakeERC(facilities[Len(facilities)].value,
                        CurComponents[Len(CurComponents)].value, new.value.i)
    IN  ( /\ Reading("result")
          /\ WellTyped(doc'[Len(doc')])
          /\ \E i \in DOMAIN CurResults :
                 \/ CurResults[i].name = new.name.s
                 \/ CurResults[i].full_erc_value = code )
        => RejectedStep

\* parse_json has returned False, and __main__ exits with 1 from there
Aborted ==
    /\ parse_json_ret = "False"
    /\ pc \in {"parse_false", "exited"}
    /\ pc = "exited" => exitCode = <<1>>

\* C9: within one component the results have pairwise distinct names and
\* pairwise distinct codes (packed and raw) in every state; a result whose
\* name or whose packed code is that of a result already in its component is
\* rejected, and the rejection aborts the run
C9_ResultUnique ==
    /\ [] ResultsDistinct
    /\ [][ResultClashRejected]_vars
    /\ [] (parse_json_ret = "False" => Aborted)

\* C9 witness: RES_ERR with the value 5 + 2^20, whose packed code is that of
\* RES_OK with the value 5, has been rejected
C9_Witness ==
    /\ Len(doc) = 4
    /\ doc[3] = Read("result", JObject(Missing, JStr("RES_OK"), Missing, JInt(5)))
    /\ doc[4] = Read("result",
                     JObject(Missing, JStr("RES_ERR"), Missing, JInt(Pow20 + 5)))
    /\ Aborted
    /\ Len(CurResults) = 1

\* the number of facilities, components and results in the model
RECURSIVE Sum(_)
Sum(q) == IF q = <<>> THEN 0 ELSE Head(q) + Sum(Tail(q))

EntityCount ==
    Sum([f \in DOMAIN facilities |->
            1 + Sum([c \in DOMAIN facilities[f].components |->
                        1 + Len(facilities[f].components[c].results)])])

\* after a failed parse: the object that failed is the last one taken from
\* the document, and it is in the model only if what failed is the list of
\* its components or results; result.h has not been opened and is what it
\* was before the run, and the run is exiting with 1
FailedWithoutOutput ==
    /\ EntityCount = (IF doc = <<>> THEN 0
                      ELSE IF parse_json_ret # "False" /\ FieldsTyped(cur)
                      THEN Len(doc) ELSE Len(doc) - 1)
    /\ opens = 0
    /\ result_h = result_h_before
    /\ pc \in {"parse_false", "exited"}
    /\ pc = "exited" => exitCode = <<1>>

\* after a failed parse no step changes the model, reads the document or
\* touches result.h
FrozenAfterFailure ==
    ParseFailed =>
        /\ facilities' = facilities
        /\ doc' = doc
        /\ opens' = opens
        /\ result_h' = result_h
        /\ pc' = "exited"

\* C10: once an object of the document fails validation (a wrong type, a
\* missing key, a duplicate), nothing more is read or inserted, generation
\* and writing never start, result.h is never opened and stays what it was
\* before the run (absent, or with its earlier contents), and the run exits
\* with 1
C10_FailFast ==
    /\ [] (ParseFailed => FailedWithoutOutput)
    /\ [][FrozenAfterFailure]_vars

\* C10 witness: the third component of the only facility was a duplicate;
\* the run has exited with 1 and the earlier result.h is untouched
C10_Witness ==
    /\ Len(doc) = 4
    /\ \A k \in 2..4 : doc[k].kind = "component"
    /\ Len(facilities[1].components) = 2
    /\ parse_json_ret = "False"
    /\ exitCode = <<1>>
    /\ result_h_before = OldFile
    /\ result_h = OldFile
    /\ opens = 0

\* the number of results in the model
ResultCount ==
    Sum([f \in DOMAIN facilities |->
            Sum([c \in DOMAIN facilities[f].components |->
                    Len(facilities[f].components[c].results)])])

\* generate_result_h_file has got past its check of the three sections
PastSectionCheck ==
    \/ pc \in {"open_result_h", "write_result_h", "generate_true"}
    \/ opens > 0

\* C11: when the parsed model has no facility, or no component, or no result
\* at all, generate_result_h_file returns False without opening result.h,
\* which stays what it was, and the run exits with 1; result.h is opened
\* only when the enum, accessor and result-constant sections are all
\* non-empty
C11_EmptyModelFails ==
    /\ (parse_json_ret = "True" /\ ResultCount = 0) =>
            /\ opens = 0
            /\ result_h = result_h_before
            /\ pc \in {"generate", "generate_false", "exited"}
            /\ pc = "exited" => exitCode = <<1>>
    /\ PastSectionCheck =>
            /\ get_facility_and_component_code_defs(facilities) # <<>>
            /\ get_erc_make_functions(facilities) # <<>>
            /\ get_extended_result_code_defs(facilities) # <<>>
            /\ ResultCount > 0

\* C11 witness: a document of two facilities, the second with one component
\* and no result, was parsed; generation failed and the run has exited with
\* 1, with result.h never opened
C11_Witness ==
    /\ parse_json_ret = "True"
    /\ Len(facilities) = 2
    /\ facilities[1].components = <<>>
    /\ Len(facilities[2].components) = 1
    /\ ResultCount = 0
    /\ exitCode = <<1>>
    /\ opens = 0
    /\ stdout[Len(stdout)] = <<"Failed to generate result.h file">>

\* this run has written the whole generated text to result.h
ArtifactWritten ==
    /\ parse_json_ret = "True"
    /\ opens = 1
    /\ result_h = FileWith(FileContents(facilities))

\* the aborts of __main__ before parse_json: no arguments, a json path where
\* there is nothing or no file, a result directory that does not exist
AbortedInMain ==
    \/ argv = ""
    \/ argv = "-j -r" /\ json_file \in {"absent", "directory"}
    \/ /\ argv = "-j -r"
       /\ json_file \notin {"absent", "directory"}
       /\ result_dir = "absent"

\* generate_result_h_file returned False
GenerateFailed ==
    /\ parse_json_ret = "True"
    /\ pc = "exited"
    /\ ~ArtifactWritten

\* C13 (as claimed): the process exits with 0 only when the artifact was
\* completely written, and with a nonzero status on every abort: missing
\* arguments, a json path that does not exist or is not a file, a result
\* directory that does not exist, a failed parse and a failed generation
C13_ExitStatus ==
    pc = "exited" =>
        /\ exitCode = <<0>> => ArtifactWritten
        /\ (AbortedInMain \/ ParseFailed \/ GenerateFailed) => exitCode # <<0>>

\* C14 (as claimed): when opening or writing result.h fails, the file is what
\* it was before the run (absent, or with its earlier contents), and at no
\* moment is the file anything but what it was before the run or the whole
\* generated text
C14_AtomicPersistence ==
    /\ OutputFailed => result_h = result_h_before
    /\ \/ result_h = result_h_before
       \/ result_h = FileWith(FileContents(facilities))

\* the diagnostic of a failed parse is one of a wrong type or a missing key,
\* not one of a duplicate
SchemaDiagnostic ==
    \/ parse_json_ret \in {"KeyError", "TypeError"}
    \/ /\ parse_json_ret = "False"
       /\ \A k \in DOMAIN stdout :
              stdout[k][Len(stdout[k])] # " is a duplicate!"

\* C16 (as claimed): nothing is inserted into the model while the document
\* is being parsed: until parse_json has returned True the model is empty,
\* so a failed parse leaves an empty model, and a parse of a document with a
\* duplicate fails with the diagnostic of a structural error, never with that
\* of the duplicate
C16_ValidateBeforeBuild ==
    /\ parse_json_ret # "True" => facilities = <<>>
    /\ ParseFailed => SchemaDiagnostic

\* C17 (as claimed): parse_json never ends in an exception; when the object
\* read last lacks a required key or holds one with a wrong type (its list
\* of components or results included), and when the file has no "facilities"
\* key, parse_json prints a diagnostic and returns False, and the object is
\* not in the model
C17_SchemaFailureReported ==
    /\ parse_json_ret \in {"", "True", "False"}
    /\ (doc # <<>> /\ ~WellTyped(cur)) =>
           /\ parse_json_ret = "False"
           /\ EntityCount = Len(doc) - 1
    /\ (json_file = "no facilities" /\ pc \notin {"main", "parse_json"}
           /\ argv = "-j -r" /\ result_dir = "directory") =>
           parse_json_ret = "False"

----------------------------------------------------------------------------
(* Properties of the text of result.h *)

\* the run has written result.h and generate_result_h_file has returned True
Written ==
    /\ parse_json_ret = "True"
    /\ pc = "generate_true" \/ exitCode = <<0>>

\* what a block of result.h is, told from its text
BlockKind(b) ==
    IF Len(b) >= 2 /\ b[2] = "typedef enum tagADUC_Facility\n{\n"
    THEN "facility enum"
    ELSE IF Len(b) >= 1 /\ b[1] = "typedef enum tag"
    THEN "component enum"
    ELSE IF Len(b) >= 5 /\ b[5] = "MAKE_ADUC_EXTENDEDRESULTCODE_FOR_FACILITY_"
    THEN "facility accessor"
    ELSE IF Len(b) >= 5 /\ b[5] = "MAKE_ADUC_EXTENDEDRESULTCODE_FOR_COMPONENT_"
    THEN "component accessor"
    ELSE IF \E k \in DOMAIN b : b[k] = "define "
    THEN "result constant"
    ELSE "text"

\* the section a block belongs to: 1 the facility enumeration, 2 the
\* component enumerations, 3 the accessors, 4 the result constants, 0 the
\* fixed text around them
SectionRank(kind) ==
    CASE kind = "facility enum" -> 1
      [] kind = "component enum" -> 2
      [] kind \in {"facility accessor", "component accessor"} -> 3
      [] kind = "result constant" -> 4
      [] kind = "text" -> 0

\* the positions of the blocks of this kind in a text
BlocksOf(text, kind) == {i \in DOMAIN text : BlockKind(text[i]) = kind}

\* the names an enumeration block defines (name=value), in order
RECURSIVE EnumNames(_)
EnumNames(b) ==
    IF Len(b) < 2 THEN <<>>
    ELSE (IF b[2] = "=" THEN <<b[1]>> ELSE <<>>) \o EnumNames(Tail(b))

Names(list) == [k \in DOMAIN list |-> list[k].name]

\* C15: in a written result.h the facility enumeration comes first, then
\* the component enumerations, then the accessors, then the result
\* constants, with no block of a later section before a block of an earlier
\* one; there is one facility enumeration and it lists the facilities of
\* the model, one entry each, in insertion order
C15_SectionOrder ==
    Written =>
        LET text == result_h.text
            rank(i) == SectionRank(BlockKind(text[i]))
        IN  /\ \A i, j \in DOMAIN text :
                   (i < j /\ rank(i) > 0 /\ rank(j) > 0) => rank(i) <= rank(j)
            /\ \A r \in 1..4 : \E i \in DOMAIN text : rank(i) = r
            /\ Cardinality(BlocksOf(text, "facility enum")) = 1
            /\ \A i \in BlocksOf(text, "facility enum") :
                   EnumNames(text[i]) = Names(facilities)

\* C15 witness: a result.h with two facilities in its facility enumeration
\* has been written and the run has exited with 0
C15_Witness ==
    /\ Written
    /\ exitCode = <<0>>
    /\ Len(facilities) = 2
    /\ \E i \in BlocksOf(result_h.text, "facility enum") :
           Len(EnumNames(result_h.text[i])) = 2
    /\ BlocksOf(result_h.text, "result constant") # {}

\* the blocks of this kind of a text, in the order of the text
KindSeq(text, kind) == SelectSeq(text, LAMBDA b : BlockKind(b) = kind)

\* the facilities of the model that have a component, in insertion order
WithComponents == SelectSeq(facilities, LAMBDA f : f.components # <<>>)

\* the block is the enumeration typedef of this facility's components: it
\* opens and closes with the facility's name and defines, in insertion
\* order, name=code for each of its components and nothing else
IsComponentEnumOf(b, facility) ==
    /\ SubSeq(b, 1, 3) = <<"typedef enum tag", facility.name, "_Components\n{\n">>
    /\ SubSeq(b, Len(b) - 2, Len(b)) = <<"} ", facility.name, "_Components;\n\n">>
    /\ EnumNames(b) = Names(facility.components)
    /\ \A k \in DOMAIN facility.components :
           HasTokens(<<b>>, <<facility.components[k].name, "=">>
                            \o PyStr(facility.components[k].value) \o <<", ">>)

\* C18: a written result.h has a component enumeration block for a facility
\* exactly if the facility has a component; the blocks are in the insertion
\* order of their facilities, and each lists the components of its facility,
\* all of them and no other, in their insertion order
C18_ComponentEnums ==
    Written =>
        LET enums == KindSeq(result_h.text, "component enum")
        IN  /\ Len(enums) = Len(WithComponents)
            /\ \A k \in DOMAIN enums : IsComponentEnumOf(enums[k], WithComponents[k])

\* C18 witness: result.h was written for a first facility without
\* components and a second with one: it holds one component enumeration,
\* that of the second facility
C18_Witness ==
    /\ Written
    /\ exitCode = <<0>>
    /\ Len(facilities) = 2
    /\ facilities[1].components = <<>>
    /\ Len(KindSeq(result_h.text, "component enum")) = 1
    /\ KindSeq(result_h.text, "component enum")[1][2] = facilities[2].name

\* the accessor blocks of a text, in the order of the text
Accessors(text) ==
    SelectSeq(text, LAMBDA b : BlockKind(b) \in {"facility accessor",
                                                  "component accessor"})

\* what an accessor block declares: its kind, the name it is the accessor
\* of, and the facility whose packing it ends in
AccessorOf(b) ==
    IF BlockKind(b) = "facility accessor"
    THEN <<"facility", b[6], b[11]>>
    ELSE <<"component", b[6], b[10]>>

\* the body of an accessor block: a facility's accessor takes a component
\* and a value and returns MAKE_ADUC_EXTENDEDRESULTCODE(facility, component,
\* value); a component's accessor takes a value and returns the call of a
\* facility's accessor with its own name and the value
AccessorBody(b) ==
    IF BlockKind(b) = "facility accessor"
    THEN SubSeq(b, 7, 10) = <<"(const unsigned int component, const int32_t value)\n{\n",
                              "    return ", "MAKE_ADUC_EXTENDEDRESULTCODE", "(">>
         /\ SubSeq(b, 12, Len(b)) = <<", component, value);\n}\n", "\n">>
    ELSE SubSeq(b, 7, 9) = <<"(const int32_t value)\n{\n", "    return ",
                             "MAKE_ADUC_EXTENDEDRESULTCODE_FOR_FACILITY_">>
         /\ SubSeq(b, 11, Len(b)) = <<"(", b[6], ", value);\n}\n", "\n">>

\* the accessors the model asks for: each facility's, followed by those of
\* its components, in insertion order
ExpectedAccessors ==
    Flatten([f \in DOMAIN facilities |->
                << <<"facility", facilities[f].name, facilities[f].name>> >>
                \o [c \in DOMAIN facilities[f].components |->
                       <<"component", facilities[f].components[c].name,
                         facilities[f].name>>]])

\* C19: the accessors of a written result.h are one per facility and one
\* per component; the accessor of a facility is followed at once by those
\* of its own components, before the accessor of the next facility, and
\* the accessor of a component returns the call of the accessor of the
\* facility that owns it, with the component's own name as argument
C19_AccessorNesting ==
    Written =>
        LET accessors == Accessors(result_h.text)
        IN  /\ [k \in DOMAIN accessors |-> AccessorOf(accessors[k])] = ExpectedAccessors
            /\ \A k \in DOMAIN accessors : AccessorBody(accessors[k])

\* C19 witness: result.h was written for a first facility with a component
\* and a second facility: the accessor of the component stands between the
\* accessors of the two facilities
C19_Witness ==
    /\ Written
    /\ exitCode = <<0>>
    /\ Len(facilities) = 2
    /\ Len(facilities[1].components) = 1
    /\ Len(Accessors(result_h.text)) = 3
    /\ AccessorOf(Accessors(result_h.text)[2])
           = <<"component", facilities[1].components[1].name, facilities[1].name>>
    /\ AccessorOf(Accessors(result_h.text)[3])[1] = "facility"

\* every result of the model holds the packed code of its facility's code,
\* its component's code and its own raw value
PackedCodesOwned ==
    \A f \in DOMAIN facilities :
        \A c \in DOMAIN facilities[f].components :
            \A r \in DOMAIN facilities[f].components[c].results :
                LET result == facilities[f].components[c].results[r]
                IN  result.full_erc_value
                        = MakeERC(facilities[f].value,
                                  facilities[f].components[c].value,
                                  result.rc_value)

\* the constant of a result: the comment with its name and its packed code
\* in decimal and in hexadecimal, and the #define of its name as the call of
\* the accessor of its component with its raw value
ExpectedConstant(facility, component, result) ==
    LET code == MakeERC(facility.value, component.value, result.rc_value)
    IN  <<"/**\n * @brief ", result.name, ", ERC Value: ">>
        \o WideStr(code) \o <<" (">> \o PyHex(code) \o <<")", "\n */\n ">>
        \o <<"#", "define ", result.name, " ",
             "MAKE_ADUC_EXTENDEDRESULTCODE_FOR_COMPONENT_", component.name, "(">>
        \o PyStr(result.rc_value) \o <<")\n", "\n">>

\* the constants of all results of the model, in insertion order
ExpectedConstants ==
    Flatten([f \in DOMAIN facilities |->
        Flatten([c \in DOMAIN facilities[f].components |->
            [r \in DOMAIN facilities[f].components[c].results |->
                ExpectedConstant(facilities[f], facilities[f].components[c],
                                 facilities[f].components[c].results[r])]])])

\* C20: in every state each result of the model holds the packed code
\* MakeERC(code of its facility, code of its component, its raw value), so
\* the codes are there before generation starts; a written result.h has one
\* constant per result and no other, each the call of the accessor of the
\* owning component with the raw value, under a comment that shows the
\* packed code in decimal and in hexadecimal
C20_PackedConstants ==
    /\ PackedCodesOwned
    /\ Written =>
           KindSeq(result_h.text, "result constant") = ExpectedConstants

\* C20 witness: result.h was written with the constants of two results of
\* one component
C20_Witness ==
    /\ Written
    /\ exitCode = <<0>>
    /\ Len(facilities) = 1
    /\ Len(facilities[1].components) = 1
    /\ Len(facilities[1].components[1].results) = 2
    /\ Len(KindSeq(result_h.text, "result constant")) = 2
    /\ facilities[1].value = 1
    /\ facilities[1].components[1].value = 2

----------------------------------------------------------------------------
(* Two runs on the same document, checked under SpecRerun *)

\* the output of a run without the line about the result file being there
\* already
Diagnostics(out) == SelectSeq(out, LAMBDA m : m # <<"Overwriting file at ">>)

\* the first run ended on a failure of open() or write() of result.h
FirstOutputFailed ==
    /\ first[1].opens = 1
    /\ \E k \in DOMAIN first[1].stdout :
           first[1].stdout[k] = <<"An unknown error occurred">>

\* C12: of two runs on the same document with the same command line, the
\* second fails in parse_json exactly if the first did, on the same object,
\* with the same return or exception and the same model; when it has parsed
\* the document its model is that of the first run; when no open() or
\* write() of result.h failed in either run both exit with the same status
\* after the same diagnostics, and when both exit with 0 result.h holds the
\* same text after the second run as after the first
C12_Determinism ==
    first # <<>> =>
        /\ parse_json_ret # "" =>
               /\ parse_json_ret = first[1].parse_json_ret
               /\ doc = first[1].doc
               /\ facilities = first[1].facilities
        /\ (pc = "parsing" /\ doc = first[1].doc) =>
               first[1].parse_json_ret = "True"
        /\ (pc = "exited" /\ ~OutputFailed /\ ~FirstOutputFailed) =>
               /\ exitCode = first[1].exitCode
               /\ Diagnostics(stdout) = Diagnostics(first[1].stdout)
        /\ (exitCode = <<0>> /\ first[1].exitCode = <<0>>) =>
               result_h = first[1].result_h

\* C12 witness: both runs have parsed a document of a facility, a component
\* and a result, and have exited with 0; the second run found the result.h
\* of the first and wrote it again
C12_Witness ==
    /\ first # <<>>
    /\ first[1].exitCode = <<0>>
    /\ exitCode = <<0>>
    /\ Len(doc) = 3
    /\ opens = 1
    /\ result_h_before = first[1].result_h
    /\ result_h = FileWith(FileContents(facilities))

\* C12 witness of the failing case is part of the same runs: both runs
\* stopped at the same duplicate
C12_FailedTwice ==
    /\ first # <<>>
    /\ first[1].parse_json_ret = "False"
    /\ parse_json_ret = "False"
    /\ Len(doc) = 2
    /\ exitCode = <<1>>

----------------------------------------------------------------------------
(* Frame properties of the model *)

\* the entities of a model in the order facility, its components, each
\* followed by its results
Preorder(facs) ==
    Flatten([f \in DOMAIN facs |->
        << <<"facility", facs[f].name>> >>
        \o Flatten([c \in DOMAIN facs[f].components |->
               << <<"component", facs[f].components[c].name>> >>
               \o [r \in DOMAIN facs[f].components[c].results |->
                      <<"result", facs[f].components[c].results[r].name>>]])])

\* every entity of the model old is in the model new, at the same place of
\* the same list, with the same name, code and doc string
Extends(old, new) ==
    /\ Len(old) <= Len(new)
    /\ \A f \in DOMAIN old :
           /\ new[f].name = old[f].name
           /\ new[f].value = old[f].value
           /\ new[f].doc_string = old[f].doc_string
           /\ Len(old[f].components) <= Len(new[f].components)
           /\ \A c \in DOMAIN old[f].components :
                  LET a == old[f].components[c]
                      b == new[f].components[c]
                  IN  /\ b.name = a.name
                      /\ b.value = a.value
                      /\ b.doc_string = a.doc_string
                      /\ b.facility_code = a.facility_code
                      /\ IsPrefix(a.results, b.results)

\* a step keeps every entity where it is; one that changes the model is a
\* step of the loops of parse_json that puts the object just read, and
\* nothing else, at the end of the model; outside these loops the model is
\* not changed
AppendOnlyStep ==
    /\ Extends(facilities, facilities')
    /\ facilities' # facilities =>
           /\ pc = "parsing"
           /\ Len(doc') = Len(doc) + 1
           /\ Preorder(facilities')
                  = Append(Preorder(facilities),
                           <<doc'[Len(doc')].kind, doc'[Len(doc')].obj.name.s>>)
    /\ pc # "parsing" => facilities' = facilities

\* the model lists the objects accepted from the document in the order of
\* the document
DocumentOrder ==
    /\ EntityCount \in {Len(doc) - 1, Len(doc)}
    /\ Preorder(facilities)
           = [k \in 1..EntityCount |-> <<doc[k].kind, doc[k].obj.name.s>>]

\* C21: the model only grows at its end: an accepted insertion appends the
\* entity to its list, so the model lists the entities in document order;
\* no step removes, renames or moves an entity; and once parse_json has
\* returned, generating and writing leave the model as it is
C21_AppendOnly ==
    /\ [][AppendOnlyStep]_vars
    /\ [] (doc # <<>> => DocumentOrder)

\* C21 witness: four objects were inserted, the last of them a second
\* facility, and result.h was generated and written from that model
C21_Witness ==
    /\ exitCode = <<0>>
    /\ parse_json_ret = "True"
    /\ Preorder(facilities)
           = << <<"facility", "FAC_A">>, <<"component", "COMP_X">>,
                <<"result", "RES_OK">>, <<"facility", "FAC_B">> >>
    /\ result_h = FileWith(FileContents(facilities))

\* this step is a rejected insertion: parse_json reports the object just
\* read as a duplicate
DuplicateReported ==
    /\ Len(stdout') = Len(stdout) + 1
    /\ stdout'[Len(stdout')][Len(stdout'[Len(stdout')])] = " is a duplicate!"

\* C22: when add_facility_code, add_component or add_result rejects an
\* object, the model after the call is the model before it: the lists, and
\* the name, code, doc string, components and results of every entity in
\* them, are unchanged, and the colliding object has overwritten nothing
C22_RejectionChangesNothing ==
    [][DuplicateReported => (facilities' = facilities /\ pc' = "parse_false")]_vars

\* C22 witness: RES_OK with the new value 6 was rejected for its name; the
\* component still holds RES_OK with the value 5
C22_Witness ==
    /\ Len(doc) = 4
    /\ doc[3] = Read("result", JObject(Missing, JStr("RES_OK"), Missing, JInt(5)))
    /\ doc[4] = Read("result", JObject(Missing, JStr("RES_OK"), Missing, JInt(6)))
    /\ pc = "parse_false"
    /\ stdout[Len(stdout)] = <<"Result code: ", "RES_OK", " is a duplicate!">>
    /\ Len(CurResults) = 1
    /\ CurResults[1].rc_value = 5

\* C23 (as claimed): in every run the input specification is read exactly
\* once and result.h is written at most once, and a run that ends with the
\* status 0 has written exactly once
C23_OnceEveryRun ==
    pc = "exited" =>
        /\ reads = 1
        /\ writes <= 1
        /\ exitCode = <<0>> => writes = 1

\* C23 (amended): the input specification is opened at most once, and
\* exactly once in every run that reaches parse_json (a run that __main__
\* ends before parse_json never opens it); result.h is written at most once,
\* only after parse_json returned True and the three sections were found
\* non-empty and result.h was opened, and a run in which
\* generate_result_h_file returns True has written exactly once
C23_ReadAndWriteOnce ==
    /\ reads <= 1
    /\ writes <= 1
    /\ parse_json_ret # "" => reads = 1
    /\ pc = "exited" => (reads = 1 <=> parse_json_ret # "")
    /\ writes = 1 =>
            /\ parse_json_ret = "True"
            /\ reads = 1
            /\ opens = 1
            /\ get_facility_and_component_code_defs(facilities) # <<>>
            /\ get_erc_make_functions(facilities) # <<>>
            /\ get_extended_result_code_defs(facilities) # <<>>
    /\ Written => writes = 1

\* C23 witness: a run that read the specification once, wrote result.h once
\* and exited with 0, the file holding the whole generated text
C23_Witness ==
    /\ pc = "exited"
    /\ exitCode = <<0>>
    /\ reads = 1
    /\ writes = 1
    /\ ArtifactWritten

\* what __main__ makes of a command line: the two paths its option loop
\* leaves and what the loop printed when it ended the process
OptionsOf(a) == ReadOptions(getopt(sys_argv(a)), "", "")

\* C24 (as claimed): the long options work like the short ones:
\* --json-file-path <path> --result-file-path <path> sets the two paths as
\* -j <path> -r <path> does, and with a readable document and an existing
\* result directory the run reaches parse_json; --help prints what -h
\* prints and exits with the same status
C24_LongOptions ==
    /\ (argv = "--json-file-path --result-file-path" /\ pc = "exited") =>
            /\ ~GetoptError(getopt(sys_argv(argv)))
            /\ OptionsOf(argv) = OptionsOf("-j -r")
            /\ (json_file = "document" /\ result_dir = "directory")
                    => parse_json_ret # ""
    /\ (argv = "--help" /\ pc = "exited") =>
            /\ stdout = << <<"Usage: ...">> >>
            /\ exitCode = <<1>>

\* C25 (as claimed): for an in-range triple the value MakeERC computes, which
\* the annotation of the result prints, lies in -2^31..2^31-1 and is the
\* ADUC_Result_t value the accessor MAKE_ADUC_EXTENDEDRESULTCODE returns for
\* the triple
C25_PackedInt32 ==
    InRangeCall =>
        /\ Len(ercVal) <= 31
        /\ [negative |-> FALSE, magnitude |-> ercVal]
               = MAKE_ADUC_EXTENDEDRESULTCODE(ercArgs[1], ercArgs[2], ercArgs[3])

\* the components of all facilities of the model, and the results of all
\* its components, in insertion order
AllComponents == Flatten([f \in DOMAIN facilities |-> facilities[f].components])
AllResults == Flatten([c \in DOMAIN AllComponents |-> AllComponents[c].results])

\* no two entries of a sequence are equal
Injective(q) == \A i, j \in DOMAIN q : i # j => q[i] # q[j]

\* C26 (as claimed): in a model parse_json accepted no two results, of
\* whatever components and facilities, have the same packed code
C26_PackedCodesDistinct ==
    parse_json_ret = "True" =>
        Injective([k \in DOMAIN AllResults |-> AllResults[k].full_erc_value])

\* the name a result constant block defines: the token after "define "
DefineName(b) == b[(CHOOSE k \in DOMAIN b : b[k] = "define ") + 1]

\* C27 (as claimed): parse_json accepts no two results of the same name,
\* also in different components or facilities, and in a written result.h
\* no two #define lines define the same name
C27_ResultNamesDistinct ==
    /\ parse_json_ret = "True" => Injective(Names(AllResults))
    /\ Written =>
            LET constants == KindSeq(result_h.text, "result constant")
            IN  Injective([k \in DOMAIN constants |-> DefineName(constants[k])])

\* C28 (as claimed): parse_json accepts no two components of the same name,
\* also in different facilities, and in a written result.h no two component
\* accessors and no two entries of the component enumerations have the
\* same name
C28_ComponentNamesDistinct ==
    /\ parse_json_ret = "True" => Injective(Names(AllComponents))
    /\ Written =>
            LET accessors == KindSeq(result_h.text, "component accessor")
                enums == KindSeq(result_h.text, "component enum")
            IN  /\ Injective([k \in DOMAIN accessors |-> accessors[k][6]])
                /\ Injective(Flatten([k \in DOMAIN enums |-> EnumNames(enums[k])]))

\* C29 (as claimed): when parse_json has returned False the model is empty,
\* so that a call of generate_result_h_file on the same generator fails:
\* result.h is not opened, nothing is written and the file is what it was
C29_NoPartialModel ==
    parse_json_ret = "False" =>
        /\ facilities = <<>>
        /\ opens = 0
        /\ writes = 0
        /\ result_h = result_h_before
        /\ pc # "generate_true"

\* parse_json was called a second time after a first call that returned
\* True and left at least one facility
ParsedTwice ==
    /\ first # <<>>
    /\ first[1].parse_json_ret = "True"
    /\ first[1].facilities # <<>>

\* C30: parse_json called again on a generator whose first call returned
\* True with at least one facility, on the same document, returns False at
\* the first facility, reported as a duplicate, with nothing else read; the
\* model is at every moment what the first call left, and a result.h
\* generated afterwards is the text generated from the model of the first
\* call
C30_SecondParseHarmless ==
    ParsedTwice =>
        /\ facilities = first[1].facilities
        /\ parse_json_ret \in {"", "False"}
        /\ pc = "parsing" => doc = <<>>
        /\ parse_json_ret = "False" =>
                /\ doc = << first[1].doc[1] >>
                /\ doc[1].kind = "facility"
                /\ Len(stdout) > Len(first[1].stdout)
                /\ stdout[Len(first[1].stdout) + 1]
                       = <<"Facility ", facilities[1].name, " is a duplicate!">>
        /\ pc = "generate_true" =>
                result_h = FileWith(FileContents(first[1].facilities))

\* C30 witness: a document of a facility with a component and a result and
\* of a second facility was parsed twice; the second call returned False and
\* generate_result_h_file, called afterwards, has written the text of the
\* model of the first call
C30_Witness ==
    /\ ParsedTwice
    /\ Len(first[1].doc) = 4
    /\ Len(first[1].facilities) = 2
    /\ parse_json_ret = "False"
    /\ pc = "generate_true"
    /\ writes = 1
    /\ result_h = FileWith(FileContents(first[1].facilities))

============================================================================
